---- MODULE Spec2Model ----
(***************************************************************************)
(* Model of design/scara_kinematics.py: the SCARAKinematics solver          *)
(* (constructor, forward_kinematics, inverse_kinematics, normalize_angle,   *)
(* wrap_degrees) and the verification step of cli_inverse_kinematics.       *)
(*                                                                         *)
(* Python floats are modelled in two ways, each where it matters:          *)
(*  - the kinematics use decimal fixed point: lengths in 1/LenScale mm,     *)
(*    cosines in 1/CosScale, radians in 1/RadScale rad, degrees in          *)
(*    1/DegScale degree.  The math library calls (sqrt, cos, sin, acos,     *)
(*    atan2, radians, degrees) are computed on these grids;                 *)
(*  - the two angle helpers use a binary floating-point format with a       *)
(*    MantBits-bit significand whose values are integer counts of           *)
(*    2^-FracBits degree, every addition rounded to nearest-even as the     *)
(*    IEEE double the interpreter uses.                                     *)
(***************************************************************************)
EXTENDS Integers, Sequences, FiniteSets, TLC

\* ------------------------------------------------------------------------
\* Bounds of the model
\* ------------------------------------------------------------------------
MaxLen == 5          \* link lengths passed to the constructor: -1 .. MaxLen
MaxCoord == 8        \* target coordinates: -MaxCoord .. MaxCoord
MantBits == 6        \* significand width of the modelled binary float
FracBits == 2        \* the float quantum is 2^-FracBits degree
MaxExp == 10         \* float inputs reach 2^(MantBits + FracBits + MaxExp) quanta
NumCallers == 2      \* callers sharing one solver instance
MaxEps == 2          \* reachability tolerances tried, in 1/LenScale mm
MaxK == 2            \* whole turns tried by the periodicity law

\* ------------------------------------------------------------------------
\* Fixed-point grids of the kinematics
\* ------------------------------------------------------------------------
LenScale == 1000
CosScale == 10000
RadScale == 10000
DegScale == 100
Pi == 31416                      \* math.pi in 1/RadScale rad
Deg180 == 180 * DegScale
Deg360 == 360 * DegScale

Abs(n) == IF n < 0 THEN -n ELSE n
Max2(a, b) == IF a > b THEN a ELSE b
Min2(a, b) == IF a < b THEN a ELSE b

\* a / b rounded to the nearest integer, b > 0
DivR(a, b) == (a + b \div 2) \div b

RECURSIVE SqrtSearch(_, _, _)
SqrtSearch(n, lo, hi) ==
    IF lo >= hi THEN lo
    ELSE LET mid == (lo + hi + 1) \div 2
         IN IF mid * mid <= n THEN SqrtSearch(n, mid, hi)
            ELSE SqrtSearch(n, lo, mid - 1)

\* math.sqrt(x*x + y*y) in 1/LenScale mm (largest grid value whose square
\* does not exceed the argument)
Sqrt(x, y) == SqrtSearch((x * x + y * y) * LenScale * LenScale, 0, 46000)

\* cosine and sine series on [0, pi/4], argument in 1/RadScale rad,
\* value in 1/CosScale
CosSeries(r) ==
    LET x2 == DivR(r * r, RadScale)
        x4 == DivR(x2 * x2, RadScale)
        x6 == DivR(x4 * x2, RadScale)
    IN CosScale - DivR(x2, 2) + DivR(x4, 24) - DivR(x6, 720)

SinSeries(r) ==
    LET x2 == DivR(r * r, RadScale)
        x3 == DivR(x2 * r, RadScale)
        x5 == DivR(x3 * x2, RadScale)
        x7 == DivR(x5 * x2, RadScale)
    IN r - DivR(x3, 6) + DivR(x5, 120) - DivR(x7, 5040)

\* cosine on [0, pi/2]
CosQuadrant(r) ==
    IF 2 * r <= Pi \div 2 THEN CosSeries(r) ELSE SinSeries(Pi \div 2 - r)

\* math.cos
Cos(r) ==
    LET t == r % (2 * Pi)
        u == IF t > Pi THEN 2 * Pi - t ELSE t
    IN IF 2 * u <= Pi THEN CosQuadrant(u) ELSE -CosQuadrant(Pi - u)

\* math.sin
Sin(r) == Cos(r - Pi \div 2)

RECURSIVE AcosSearch(_, _, _)
AcosSearch(c, lo, hi) ==
    IF lo >= hi THEN lo
    ELSE LET mid == (lo + hi) \div 2
         IN IF Cos(mid) <= c THEN AcosSearch(c, lo, mid)
            ELSE AcosSearch(c, mid + 1, hi)

\* math.acos: the angle in [0, pi] whose cosine is c; exact at the ends
Acos(c) ==
    IF c >= CosScale THEN 0
    ELSE IF c <= -CosScale THEN Pi
    ELSE AcosSearch(c, 0, Pi)

\* math.atan2(y, x), in (-pi, pi]; atan2(0, 0) is 0.  The ratio of the
\* smaller coordinate to the distance is taken to 1/CosScale, and the
\* angle from the axis nearer to the target
Atan2(y, x) ==
    IF x = 0 /\ y = 0 THEN 0
    ELSE LET ax == Abs(x)
             ay == Abs(y)
             lo == Min2(ax, ay)
             q == DivR(lo * lo * 10000000, x * x + y * y) * 10
             s == SqrtSearch(q, 0, CosScale)
             c == IF (s + 1) * (s + 1) - q < q - s * s THEN s + 1 ELSE s
             t == IF ax >= ay THEN Pi \div 2 - Acos(c) ELSE Acos(c)
         IN IF x >= 0 THEN (IF y >= 0 THEN t ELSE -t)
            ELSE (IF y >= 0 THEN Pi - t ELSE -(Pi - t))

\* math.radians: 1/DegScale degree to 1/RadScale rad
Radians(d) == DivR(d * (Pi \div 24), Deg180 \div 24)

\* math.degrees: 1/RadScale rad to 1/DegScale degree
Degrees(r) == DivR(r * (Deg180 \div 24), Pi \div 24)

\* C fmod: exact, the result has the sign of v
Fmod(v, w) == IF v < 0 THEN -(Abs(v) % Abs(w)) ELSE Abs(v) % Abs(w)

\* "% 360" on the degree grid of the kinematics, where sums are exact
NormDeg(d) ==
    LET mod == Fmod(d, Deg360)
    IN IF mod < 0 THEN mod + Deg360 ELSE mod

\* ------------------------------------------------------------------------
\* The binary float of the angle helpers
\* ------------------------------------------------------------------------
RECURSIVE Pow2(_)
Pow2(k) == IF k <= 0 THEN 1 ELSE 2 * Pow2(k - 1)

RECURSIVE Log2Floor(_)
Log2Floor(n) == IF n < 2 THEN 0 ELSE 1 + Log2Floor(n \div 2)

F360 == 360 * Pow2(FracBits)         \* the float 360.0, in quanta

\* round an exact value to the nearest float, ties to the even significand
Round(n) ==
    LET a == Abs(n)
    IN IF a < Pow2(MantBits) THEN n
       ELSE LET q == Pow2(Log2Floor(a) - (MantBits - 1))
                m == a \div q
                r == a % q
                up == (2 * r > q) \/ (2 * r = q /\ m % 2 = 1)
                mag == (IF up THEN m + 1 ELSE m) * q
            IN IF n < 0 THEN -mag ELSE mag

FAdd(a, b) == Round(a + b)
FSub(a, b) == Round(a - b)

\* the float "%" of the interpreter: fmod, then the divisor is added when
\* the remainder is not zero and its sign differs from the divisor's
PyFloatMod(v, w) ==
    LET mod == Fmod(v, w)
    IN IF mod # 0 /\ ((w < 0) # (mod < 0)) THEN FAdd(mod, w) ELSE mod

\* SCARAKinematics.normalize_angle
normalize_angle(angle_deg) == PyFloatMod(angle_deg, F360)

\* SCARAKinematics.wrap_degrees run to completion (defined only where the
\* loops end)
RECURSIVE wrap_degrees(_)
wrap_degrees(angle_deg) ==
    IF angle_deg < 0 THEN wrap_degrees(FAdd(angle_deg, F360))
    ELSE IF angle_deg >= F360 THEN wrap_degrees(FSub(angle_deg, F360))
    ELSE angle_deg

\* ------------------------------------------------------------------------
\* Results of a call
\* ------------------------------------------------------------------------
NoResult == [kind |-> "pending", val |-> <<>>]
ReturnNone == [kind |-> "None", val |-> <<>>]
RaiseZeroDivision == [kind |-> "ZeroDivisionError", val |-> <<>>]
ReturnSolutions(s) == [kind |-> "solutions", val |-> s]
ReturnPosition(p) == [kind |-> "position", val |-> <<p>>]
ReturnAngle(a) == [kind |-> "angle", val |-> <<<<a>>>>]

\* ------------------------------------------------------------------------
\* Kinematics
\* ------------------------------------------------------------------------
\* forward_kinematics: position in 1/CosScale mm
forward_kinematics(l1, l2, theta1_deg, theta2_deg) ==
    LET theta1_rad == Radians(theta1_deg)
        theta2_rad == Radians(theta2_deg)
    IN << l1 * Cos(theta1_rad) + l2 * Cos(theta2_rad),
          l1 * Sin(theta1_rad) + l2 * Sin(theta2_rad) >>

\* (variant: the inner bound of the annulus is not tested)
UnreachableMaxOnly(L3, maxr, minr) == L3 > maxr * LenScale

\* the reachability test of inverse_kinematics, on the raw distance
Unreachable(L3, maxr, minr) ==
    L3 > maxr * LenScale \/ L3 < minr * LenScale

Clamp(c) == Max2(-CosScale, Min2(CosScale, c))

\* (L1^2 + L2^2 - L3^2) / (2*L1*L2), clamped
CosAngleAtElbow(l1, l2, L3) ==
    Clamp(DivR((l1 * l1 + l2 * l2) * LenScale * LenScale - L3 * L3,
               2 * l1 * l2 * ((LenScale * LenScale) \div CosScale)))

\* (L1^2 + L3^2 - L2^2) / (2*L1*L3), clamped
CosAngleAtBase(l1, l2, L3) ==
    Clamp(DivR(((l1 * l1 - l2 * l2) * LenScale * LenScale + L3 * L3)
                  * (CosScale \div LenScale),
               2 * l1 * L3))

\* (variant: the two elbow configurations take each other's sign)
Theta1Flipped(elbow_angle, target_angle, angle_at_base) ==
    IF elbow_angle > 0 THEN target_angle + angle_at_base
    ELSE target_angle - angle_at_base

\* theta1 of one elbow configuration
Theta1(elbow_angle, target_angle, angle_at_base) ==
    IF elbow_angle > 0 THEN target_angle - angle_at_base
    ELSE target_angle + angle_at_base

\* (variant: the textbook angle relative to the first link)
Theta2Relative(theta1, elbow_angle) == theta1 + elbow_angle

\* theta2 as an absolute angle from the X axis
Theta2(theta1, elbow_angle) == theta1 + Pi - elbow_angle

\* (variant: the angles are converted to degrees but not normalized)
SolutionUnnormalized(elbow_angle, target_angle, angle_at_base) ==
    LET theta1 == Theta1(elbow_angle, target_angle, angle_at_base)
        theta2 == Theta2(theta1, elbow_angle)
    IN << Degrees(theta1), Degrees(theta2) >>

\* one pass of the loop over the elbow configurations
Solution(elbow_angle, target_angle, angle_at_base) ==
    LET theta1 == Theta1(elbow_angle, target_angle, angle_at_base)
        theta2 == Theta2(theta1, elbow_angle)
    IN << NormDeg(Degrees(theta1)), NormDeg(Degrees(theta2)) >>

\* inverse_kinematics after the reachability test
Solve(l1, l2, L3, x, y) ==
    IF 2 * l1 * l2 = 0 THEN RaiseZeroDivision
    ELSE IF 2 * l1 * L3 = 0 THEN RaiseZeroDivision
    ELSE LET target_angle == Atan2(y, x)
             elbow_angle_pos == Acos(CosAngleAtElbow(l1, l2, L3))
             elbow_angle_neg == -elbow_angle_pos
             angle_at_base == Acos(CosAngleAtBase(l1, l2, L3))
         IN ReturnSolutions(
              << Solution(elbow_angle_pos, target_angle, angle_at_base),
                 Solution(elbow_angle_neg, target_angle, angle_at_base) >>)

\* inverse_kinematics as one call
inverse_kinematics(l1, l2, maxr, minr, x, y) ==
    IF Unreachable(Sqrt(x, y), maxr, minr) THEN ReturnNone
    ELSE Solve(l1, l2, Sqrt(x, y), x, y)

\* ------------------------------------------------------------------------
\* State
\* ------------------------------------------------------------------------
VARIABLES
    solver,        \* "none" before the constructor ran, "ready" after
    L1, L2,        \* self.L1, self.L2
    max_radius,    \* self.max_radius
    min_radius,    \* self.min_radius
    ctor,          \* the arguments the constructor was called with
    call           \* per caller: the frame of the method it is running

vars == << solver, L1, L2, max_radius, min_radius, ctor, call >>
self == << L1, L2, max_radius, min_radius >>

Callers == 1 .. NumCallers

IdleFrame ==
    [pc |-> "idle", fn |-> "none", x |-> 0, y |-> 0, L3 |-> 0,
     angle_deg |-> 0, ret |-> NoResult, check |-> <<>>]

\* ------------------------------------------------------------------------
\* Inputs
\* ------------------------------------------------------------------------
LenArgs == -1 .. MaxLen
Coords == -MaxCoord .. MaxCoord
\* angles given to forward_kinematics, in 1/DegScale degree
FKAngles == {-90 * DegScale, 0, 2954, 33046, Deg180, Deg360 + 45 * DegScale}
\* floats given to the angle helpers, in quanta
FloatInputs ==
    { s * m * Pow2(e) : s \in {-1, 1}, m \in 0 .. Pow2(MantBits) - 1,
                        e \in 0 .. FracBits + MaxExp }
\* the smaller input sets of the interleaved callers
ConcLens == {1, 2}
ConcTargets == {<<0, 0>>, <<1, 1>>, <<MaxCoord, 1>>}
ConcAngles == {45 * DegScale, 33046}
ConcFloats == {-1, F360 + Pow2(FracBits),
               3 * Pow2(MantBits + FracBits + MaxExp - 2)}

\* ------------------------------------------------------------------------
\* Actions
\* ------------------------------------------------------------------------
\* SCARAKinematics.__init__
Construct(l1, l2) ==
    /\ solver = "none"
    /\ solver' = "ready"
    /\ L1' = l1
    /\ L2' = l2
    /\ max_radius' = l1 + l2
    /\ min_radius' = Abs(l1 - l2)
    /\ ctor' = << l1, l2 >>
    /\ UNCHANGED call

\* (variant: the distance is kept on the instance instead of in a local)
IKBeginOnInstance(c, x, y) ==
    /\ solver = "ready"
    /\ call[c].pc = "idle"
    /\ call' = [call EXCEPT ![c] =
                  [IdleFrame EXCEPT !.pc = "ik_gate",
                                    !.fn = "inverse_kinematics",
                                    !.x = x, !.y = y, !.L3 = Sqrt(x, y)]]
    /\ min_radius' = Sqrt(x, y) \div LenScale
    /\ UNCHANGED << solver, L1, L2, max_radius, ctor >>

\* inverse_kinematics is entered: the distance to the target is computed
IKBegin(c, x, y) ==
    /\ solver = "ready"
    /\ call[c].pc = "idle"
    /\ call' = [call EXCEPT ![c] =
                  [IdleFrame EXCEPT !.pc = "ik_gate",
                                    !.fn = "inverse_kinematics",
                                    !.x = x, !.y = y, !.L3 = Sqrt(x, y)]]
    /\ UNCHANGED << solver, self, ctor >>

\* the reachability test, against self.max_radius and self.min_radius
IKGate(c) ==
    /\ call[c].pc = "ik_gate"
    /\ call' = [call EXCEPT ![c] =
                  IF Unreachable(call[c].L3, max_radius, min_radius)
                  THEN [@ EXCEPT !.pc = "done", !.ret = ReturnNone]
                  ELSE [@ EXCEPT !.pc = "ik_solve"]]
    /\ UNCHANGED << solver, self, ctor >>

\* the law of cosines and the loop over the two elbow configurations
IKSolve(c) ==
    /\ call[c].pc = "ik_solve"
    /\ call' = [call EXCEPT ![c] =
                  [@ EXCEPT !.pc = "done",
                            !.ret = Solve(L1, L2, call[c].L3,
                                          call[c].x, call[c].y)]]
    /\ UNCHANGED << solver, self, ctor >>

\* cli_inverse_kinematics verifies both solutions by forward kinematics
IKVerify(c) ==
    /\ call[c].pc = "done"
    /\ call[c].fn = "inverse_kinematics"
    /\ call[c].ret.kind = "solutions"
    /\ call' = [call EXCEPT ![c] =
                  [@ EXCEPT !.pc = "verified",
                            !.check = [i \in 1 .. 2 |->
                                forward_kinematics(L1, L2,
                                    call[c].ret.val[i][1],
                                    call[c].ret.val[i][2])]]]
    /\ UNCHANGED << solver, self, ctor >>

\* forward_kinematics
FKCall(c, theta1_deg, theta2_deg) ==
    /\ solver = "ready"
    /\ call[c].pc = "idle"
    /\ call' = [call EXCEPT ![c] =
                  [IdleFrame EXCEPT !.pc = "done",
                                    !.fn = "forward_kinematics",
                                    !.x = theta1_deg, !.y = theta2_deg,
                                    !.ret = ReturnPosition(
                                        forward_kinematics(L1, L2,
                                            theta1_deg, theta2_deg))]]
    /\ UNCHANGED << solver, self, ctor >>

\* normalize_angle
NormalizeCall(c, a) ==
    /\ solver = "ready"
    /\ call[c].pc = "idle"
    /\ call' = [call EXCEPT ![c] =
                  [IdleFrame EXCEPT !.pc = "done",
                                    !.fn = "normalize_angle",
                                    !.x = a, !.angle_deg = a,
                                    !.ret = ReturnAngle(normalize_angle(a))]]
    /\ UNCHANGED << solver, self, ctor >>

\* wrap_degrees is entered
WrapBegin(c, a) ==
    /\ solver = "ready"
    /\ call[c].pc = "idle"
    /\ call' = [call EXCEPT ![c] =
                  [IdleFrame EXCEPT !.pc = "wrap_neg",
                                    !.fn = "wrap_degrees",
                                    !.x = a, !.angle_deg = a]]
    /\ UNCHANGED << solver, self, ctor >>

\* the test of "while angle_deg < 0"
WrapNegTest(c) ==
    /\ call[c].pc = "wrap_neg"
    /\ call' = [call EXCEPT ![c] =
                  IF @.angle_deg < 0
                  THEN [@ EXCEPT !.pc = "wrap_neg_add"]
                  ELSE [@ EXCEPT !.pc = "wrap_big"]]
    /\ UNCHANGED << solver, self, ctor >>

\* its body, "angle_deg += 360"
WrapNegAdd(c) ==
    /\ call[c].pc = "wrap_neg_add"
    /\ call' = [call EXCEPT ![c] =
                  [@ EXCEPT !.pc = "wrap_neg",
                            !.angle_deg = FAdd(@, F360)]]
    /\ UNCHANGED << solver, self, ctor >>

\* the test of "while angle_deg >= 360", and the return when it fails
WrapBigTest(c) ==
    /\ call[c].pc = "wrap_big"
    /\ call' = [call EXCEPT ![c] =
                  IF @.angle_deg >= F360
                  THEN [@ EXCEPT !.pc = "wrap_big_sub"]
                  ELSE [@ EXCEPT !.pc = "done",
                                 !.ret = ReturnAngle(call[c].angle_deg)]]
    /\ UNCHANGED << solver, self, ctor >>

\* its body, "angle_deg -= 360"
WrapBigSub(c) ==
    /\ call[c].pc = "wrap_big_sub"
    /\ call' = [call EXCEPT ![c] =
                  [@ EXCEPT !.pc = "wrap_big",
                            !.angle_deg = FSub(@, F360)]]
    /\ UNCHANGED << solver, self, ctor >>

\* the caller takes the result (or the exception) and is free again
Return(c) ==
    /\ call[c].pc \in {"done", "verified"}
    /\ call' = [call EXCEPT ![c] = IdleFrame]
    /\ UNCHANGED << solver, self, ctor >>

\* ------------------------------------------------------------------------
\* Specifications
\* ------------------------------------------------------------------------
Init ==
    /\ solver = "none"
    /\ L1 = 0 /\ L2 = 0 /\ max_radius = 0 /\ min_radius = 0
    /\ ctor = << 0, 0 >>
    /\ call = [c \in Callers |-> IdleFrame]

\* one caller, every geometry, the kinematics
Next ==
    \/ \E l1 \in LenArgs, l2 \in LenArgs : Construct(l1, l2)
    \/ \E x \in Coords, y \in Coords : IKBegin(1, x, y)
    \/ IKGate(1)
    \/ IKSolve(1)
    \/ IKVerify(1)
    \/ \E t1 \in FKAngles, t2 \in FKAngles : FKCall(1, t1, t2)
    \/ Return(1)

Spec == Init /\ [][Next]_vars

\* one caller, the two angle helpers over the float inputs
NormNext ==
    \/ Construct(MaxLen, MaxLen)
    \/ \E a \in FloatInputs : NormalizeCall(1, a)
    \/ \E a \in FloatInputs : WrapBegin(1, a)
    \/ WrapNegTest(1)
    \/ WrapNegAdd(1)
    \/ WrapBigTest(1)
    \/ WrapBigSub(1)
    \/ Return(1)

NormSpec == Init /\ [][NormNext]_vars

\* a call that has started keeps running: every step of wrap_degrees is
\* executed once it can be
FairNormSpec ==
    /\ NormSpec
    /\ WF_vars(WrapNegTest(1)) /\ WF_vars(WrapNegAdd(1))
    /\ WF_vars(WrapBigTest(1)) /\ WF_vars(WrapBigSub(1))

\* several callers share the instance and interleave at every step
ConcNext ==
    \/ \E l1 \in ConcLens, l2 \in ConcLens : Construct(l1, l2)
    \/ \E c \in Callers :
         \/ \E t \in ConcTargets : IKBegin(c, t[1], t[2])
         \/ IKGate(c)
         \/ IKSolve(c)
         \/ \E t1 \in ConcAngles, t2 \in ConcAngles : FKCall(c, t1, t2)
         \/ \E a \in ConcFloats : NormalizeCall(c, a)
         \/ \E a \in ConcFloats : WrapBegin(c, a)
         \/ WrapNegTest(c)
         \/ WrapNegAdd(c)
         \/ WrapBigTest(c)
         \/ WrapBigSub(c)
         \/ Return(c)

ConcSpec == Init /\ [][ConcNext]_vars

\* ------------------------------------------------------------------------
\* Properties
\* ------------------------------------------------------------------------
\* round-trip tolerance: 0.02 mm, in 1/CosScale mm (the grids resolve
\* 1e-4 rad over links of a few mm)
Tol == CosScale \div 50

IsIK(f) == f.fn = "inverse_kinematics"
ValidGeometry == L1 > 0 /\ L2 > 0
DistSq(f) == f.x * f.x + f.y * f.y

ReachabilityGate ==
    \A c \in Callers :
        (/\ IsIK(call[c])
         /\ call[c].pc # "ik_gate"
         /\ \E eps \in 0 .. MaxEps :
               \/ Sqrt(call[c].x, call[c].y) > max_radius * LenScale + eps
               \/ Sqrt(call[c].x, call[c].y) < min_radius * LenScale - eps)
        => (call[c].pc = "done" /\ call[c].ret = ReturnNone)

ReachabilityGateWitness ==
    \E c \in Callers :
        /\ IsIK(call[c]) /\ call[c].pc = "done"
        /\ ValidGeometry
        /\ call[c].x = 0 /\ call[c].y = 0
        /\ min_radius > 0
        /\ call[c].ret = ReturnNone

\* C3: with equal links inverse_kinematics(0, 0) completes without an
\* error and returns a solution pair.
OriginEqualLinks ==
    \A c \in Callers :
        (/\ IsIK(call[c]) /\ call[c].pc = "done"
         /\ ValidGeometry /\ L1 = L2
         /\ call[c].x = 0 /\ call[c].y = 0)
        => call[c].ret.kind = "solutions"

\* C4: a solver is never constructed from a non-positive link length.
InvalidGeometryRejected == solver = "ready" => ValidGeometry

NormalizationLaw ==
    \A c \in Callers :
        (call[c].fn = "normalize_angle" /\ call[c].pc = "done") =>
            LET a == call[c].x
                r == call[c].ret.val[1][1]
            IN /\ 0 <= r /\ r < F360
               /\ r = Round(a % F360)
               /\ \A k \in -MaxK .. MaxK :
                    Round(a + k * F360) = a + k * F360 =>
                        normalize_angle(a + k * F360) = r

\* C8: wrap_degrees(a) returns the value normalize_angle(a) returns.
NormalizeWrapAgree ==
    \A c \in Callers :
        (call[c].fn = "wrap_degrees" /\ call[c].pc = "done") =>
            call[c].ret.val[1][1] = normalize_angle(call[c].x)

\* what a call returns when it runs alone on a fresh solver of the
\* constructor's lengths
AloneResult(f) ==
    CASE f.fn = "inverse_kinematics" ->
           inverse_kinematics(ctor[1], ctor[2], ctor[1] + ctor[2],
                              Abs(ctor[1] - ctor[2]), f.x, f.y)
      [] f.fn = "forward_kinematics" ->
           ReturnPosition(forward_kinematics(ctor[1], ctor[2], f.x, f.y))
      [] f.fn = "normalize_angle" -> ReturnAngle(normalize_angle(f.x))
      [] f.fn = "wrap_degrees" -> ReturnAngle(wrap_degrees(f.x))

\* C9: under any interleaving of the callers the instance keeps its
\* construction values, and every finished call has the result it has
\* when run alone.
Stateless ==
    /\ solver = "ready" =>
         /\ L1 = ctor[1] /\ L2 = ctor[2]
         /\ max_radius = ctor[1] + ctor[2]
         /\ min_radius = Abs(ctor[1] - ctor[2])
    /\ \A c \in Callers :
         call[c].pc = "done" => call[c].ret = AloneResult(call[c])

StatelessWitness ==
    \E c \in Callers, d \in Callers :
        /\ c # d
        /\ IsIK(call[c]) /\ call[c].pc = "done"
        /\ call[c].ret.kind = "solutions"
        /\ call[d].pc \in {"ik_solve", "wrap_big_sub"}

\* C10: wrap_degrees terminates on every input; the second loop never
\* takes the value below 0 and the returned value is in [0, 360).
WrapTerminates ==
    /\ [](\A c \in Callers :
            call[c].pc \in {"wrap_big", "wrap_big_sub"} =>
                call[c].angle_deg >= 0)
    /\ [](\A c \in Callers :
            (call[c].fn = "wrap_degrees" /\ call[c].pc = "done") =>
                (0 <= call[c].ret.val[1][1] /\ call[c].ret.val[1][1] < F360))
    /\ \A c \in Callers :
         (call[c].fn = "wrap_degrees") ~> (call[c].pc = "done")
====
